---- MODULE Spec2Model ----
(***************************************************************************)
(* Model of the settings store (src/src/settings.ts, lines 1-193) and of   *)
(* the retry executor (src/src/settings.ts, lines 195-283).                *)
(*                                                                         *)
(* JavaScript values are tagged records [t, v]:                            *)
(*   undef, null, bool, num (an integer), frac (v + 1/2, a finite          *)
(*   non-integer), nonfinite (NaN, +-Infinity), str (a sequence of         *)
(*   one-character strings), arr (a sequence of values), obj (a function   *)
(*   from key names to values).                                            *)
(* A stored text is [kind, val]: the empty text, a text JSON.parse         *)
(* rejects, or a JSON text, held as the value JSON.parse yields for it.    *)
(***************************************************************************)
EXTENDS Integers, Sequences, FiniteSets, TLC

----------------------------------------------------------------------------
(* JavaScript values *)

Undef == [t |-> "undef", v |-> 0]
Null == [t |-> "null", v |-> 0]
NonFinite == [t |-> "nonfinite", v |-> 0]
Bool(b) == [t |-> "bool", v |-> b]
Num(n) == [t |-> "num", v |-> n]
Frac(n) == [t |-> "frac", v |-> n]
Str(s) == [t |-> "str", v |-> s]
Arr(s) == [t |-> "arr", v |-> s]
Obj(f) == [t |-> "obj", v |-> f]

EmptyObject == Obj([k \in {} |-> Undef])

\* typeof x === "number"
IsNumber(x) == x.t \in {"num", "frac", "nonfinite"}

\* Number.isFinite(x)
IsFinite(x) == x.t \in {"num", "frac"}

\* Number.isInteger(x)
IsInteger(x) == x.t = "num"

\* Array.isArray(x)
IsArray(x) == x.t = "arr"

\* x ?? y
Coalesce(x, y) == IF x.t \in {"undef", "null"} THEN y ELSE x

\* o.k for a value o that is not null or undefined
Get(o, k) == IF o.t = "obj" /\ k \in DOMAIN o.v THEN o.v[k] ELSE Undef

\* { ...a, ...b } for objects a and b, as functions
Spread(a, b) ==
  [k \in DOMAIN a \cup DOMAIN b |-> IF k \in DOMAIN b THEN b[k] ELSE a[k]]

----------------------------------------------------------------------------
(* Strings *)

WhiteSpace == {" ", "\t"}

RECURSIVE TrimStart(_)
TrimStart(s) ==
  IF s # <<>> /\ Head(s) \in WhiteSpace THEN TrimStart(Tail(s)) ELSE s

RECURSIVE TrimEnd(_)
TrimEnd(s) ==
  IF s # <<>> /\ s[Len(s)] \in WhiteSpace
    THEN TrimEnd(SubSeq(s, 1, Len(s) - 1))
    ELSE s

\* String.prototype.trim
Trim(s) == TrimEnd(TrimStart(s))

\* String.prototype.startsWith
StartsWith(s, p) == Len(s) >= Len(p) /\ SubSeq(s, 1, Len(p)) = p

\* s.slice(n)
Slice(s, n) == SubSeq(s, n + 1, Len(s))

\* "cf_clearance="
CfPrefix == <<"c", "f", "_", "c", "l", "e", "a", "r", "a", "n", "c", "e", "=">>

\* stripCfPrefix(value) for a string value
stripCfPrefix(value) ==
  LET trimmed == Trim(value)
  IN IF trimmed = <<>> THEN <<>>
     ELSE IF StartsWith(trimmed, CfPrefix)
       THEN Slice(trimmed, Len(CfPrefix))
       ELSE trimmed

\* normalizeCfCookie(value)
normalizeCfCookie(value) ==
  LET cleaned == stripCfPrefix(value)
  IN IF cleaned # <<>> THEN CfPrefix \o cleaned ELSE <<>>

----------------------------------------------------------------------------
(* Structural merge *)

isPlainObject(value) == value.t = "obj"

\* An object of the model is its own enumerable properties. On an object
\* built by assignment, result["__proto__"] = v runs the accessor of
\* Object.prototype and adds no own property, so the keys that lines 91 and
\* 109-114 give the result are the assigned keys without "__proto__".
ProtoKey == "__proto__"
Assigned(keys) == keys \ {ProtoKey}

RECURSIVE cloneValue(_)
cloneValue(value) ==
  IF IsArray(value)
    THEN Arr([i \in DOMAIN value.v |-> cloneValue(value.v[i])])
  ELSE IF isPlainObject(value)
    THEN Obj([k \in Assigned(DOMAIN value.v) |-> cloneValue(value.v[k])])
  ELSE value

RECURSIVE deepMerge(_, _)

\* a merge in which a null in the override removes the key
deepMergeNullDeletes(base, override) ==
  IF ~isPlainObject(base)
    THEN IF isPlainObject(override) THEN cloneValue(override) ELSE cloneValue(base)
  ELSE IF ~isPlainObject(override)
    THEN cloneValue(base)
  ELSE Obj([key \in {q \in Assigned(DOMAIN base.v \cup DOMAIN override.v) :
                      q \notin DOMAIN override.v \/ override.v[q].t # "null"} |->
         IF key \notin DOMAIN override.v
           THEN cloneValue(base.v[key])
         ELSE IF isPlainObject(override.v[key])
                 /\ key \in DOMAIN base.v /\ isPlainObject(base.v[key])
           THEN deepMerge(base.v[key], override.v[key])
         ELSE cloneValue(override.v[key])])

\* lines 98-118
deepMerge(base, override) ==
  IF ~isPlainObject(base)
    THEN IF isPlainObject(override) THEN cloneValue(override) ELSE cloneValue(base)
  ELSE IF ~isPlainObject(override)
    THEN cloneValue(base)
  ELSE Obj([key \in Assigned(DOMAIN base.v \cup DOMAIN override.v) |->
         IF key \notin DOMAIN override.v
           THEN cloneValue(base.v[key])
         ELSE IF isPlainObject(override.v[key])
                 /\ key \in DOMAIN base.v /\ isPlainObject(base.v[key])
           THEN deepMerge(base.v[key], override.v[key])
         ELSE cloneValue(override.v[key])])

----------------------------------------------------------------------------
(* Defaults (settings.ts lines 37-62) *)

S_INFO == <<"I", "N", "F", "O">>
S_DEBUG == <<"D", "E", "B", "U", "G">>
S_url == <<"u", "r", "l">>
S_admin == <<"a", "d", "m", "i", "n">>
S_tags == <<"x", "a", "i", "a", "r", "t", "i", "f", "a", "c", "t", ",", "x", "a", "i", ":", "t", "o", "o", "l", "_", "u", "s", "a", "g", "e", "_", "c", "a", "r", "d">>
S_abc == <<"a", "b", "c">>
S_xyz == <<"x", "y", "z">>
S_x == <<"x">>

DefaultImageCacheMb == 512
DefaultVideoCacheMb == 1024
DefaultFirstResponseTimeout == 30
DefaultChunkTimeout == 120
DefaultTotalTimeout == 600
DefaultSettingsMaxRetry == 3

DEFAULT_GLOBAL_SETTINGS ==
  Obj([base_url |-> Str(<<>>),
       log_level |-> Str(S_INFO),
       image_mode |-> Str(S_url),
       admin_username |-> Str(S_admin),
       admin_password |-> Str(S_admin),
       image_cache_max_size_mb |-> Num(DefaultImageCacheMb),
       video_cache_max_size_mb |-> Num(DefaultVideoCacheMb)])

DEFAULT_GROK_SETTINGS ==
  Obj([api_key |-> Str(<<>>),
       cf_clearance |-> Str(<<>>),
       x_statsig_id |-> Str(<<>>),
       dynamic_statsig |-> Bool(TRUE),
       filtered_tags |-> Str(S_tags),
       show_thinking |-> Bool(TRUE),
       video_poster_preview |-> Bool(FALSE),
       temporary |-> Bool(FALSE),
       stream_first_response_timeout |-> Num(DefaultFirstResponseTimeout),
       stream_chunk_timeout |-> Num(DefaultChunkTimeout),
       stream_total_timeout |-> Num(DefaultTotalTimeout),
       max_retry |-> Num(DefaultSettingsMaxRetry),
       retry_codes |-> Arr(<<Num(401), Num(429), Num(403)>>),
       retry_status_codes |-> Arr(<<Num(401), Num(429), Num(403)>>)])

GlobalKeys == DOMAIN DEFAULT_GLOBAL_SETTINGS.v
GrokKeys == DOMAIN DEFAULT_GROK_SETTINGS.v

----------------------------------------------------------------------------
(* Texts: JSON.parse and JSON.stringify *)

\* the value of globalRow?.value when the row is absent
NoText == [kind |-> "undefined", val |-> Null]
\* the text ""
EmptyText == [kind |-> "empty", val |-> Null]
\* a non-empty text that JSON.parse rejects
GarbageText == [kind |-> "garbage", val |-> Null]
\* the JSON text of the JSON value j
JsonText(j) == [kind |-> "json", val |-> j]

\* a result: a returned value, or a thrown TypeError
Returned(x) == [ok |-> TRUE, val |-> x]
Thrown == [ok |-> FALSE, val |-> Undef]

\* safeParseJson(raw, fallback) for a text raw
safeParseJson(raw, fallback) ==
  IF raw.kind = "json" THEN raw.val ELSE fallback

\* the JSON value JSON.stringify writes for x: a key whose value is undefined
\* is left out, undefined in an array and a non-finite number become null
RECURSIVE ToJson(_)
ToJson(x) ==
  IF x.t = "obj"
    THEN Obj([k \in {q \in DOMAIN x.v : x.v[q].t # "undef"} |-> ToJson(x.v[k])])
  ELSE IF x.t = "arr"
    THEN Arr([i \in DOMAIN x.v |-> ToJson(x.v[i])])
  ELSE IF x.t \in {"undef", "nonfinite"} THEN Null
  ELSE x

\* JSON.stringify(x) for an object x
JsonStringify(x) == JsonText(ToJson(x))

\* raw ? safeParseJson(raw, {}) : {}
ParseRaw(raw) ==
  IF raw.kind \in {"undefined", "empty"}
    THEN EmptyObject
    ELSE safeParseJson(raw, EmptyObject)

----------------------------------------------------------------------------
(* Loaders (settings.ts lines 125-142) *)

loadGlobalSettings(raw) ==
  Returned(deepMerge(DEFAULT_GLOBAL_SETTINGS, ParseRaw(raw)))

\* a loader that forgets line 139 (retry_status_codes: retryCodes)
grokResultUnsynced(merged, retryCodes, cookie) ==
  Obj(Spread(merged.v,
    [retry_codes |-> retryCodes,
     cf_clearance |-> Str(stripCfPrefix(cookie))]))

\* lines 136-141: the object loadGrokSettings returns
grokResult(merged, retryCodes, cookie) ==
  Obj(Spread(merged.v,
    [retry_codes |-> retryCodes,
     retry_status_codes |-> retryCodes,
     cf_clearance |-> Str(stripCfPrefix(cookie))]))

loadGrokSettings(raw) ==
  LET parsed == ParseRaw(raw)
      merged == deepMerge(DEFAULT_GROK_SETTINGS, parsed)
      parsedRetryCodes == IsArray(Get(parsed, "retry_codes"))
      parsedRetryStatusCodes == IsArray(Get(parsed, "retry_status_codes"))
      retryCodes == IF ~parsedRetryCodes /\ parsedRetryStatusCodes
                      THEN Get(merged, "retry_status_codes")
                      ELSE Get(merged, "retry_codes")
      cookie == Coalesce(Get(merged, "cf_clearance"), Str(<<>>))
  IN IF parsed.t = "null"
       THEN Thrown   \* parsed.retry_codes: a property of null
     ELSE IF cookie.t # "str"
       THEN Thrown   \* value.trim is not a function
     ELSE Returned(grokResult(merged, retryCodes, cookie.v))

----------------------------------------------------------------------------
(* The settings table and the callers of getSettings / saveSettings *)

VARIABLES
  rows,       \* the settings table: key -> row
  clock,      \* what nowMs() returns
  calls,      \* calls of getSettings / saveSettings started so far
  pc,         \* caller -> where its call stands
  op,         \* caller -> "get" or "save", its current or latest call
  req,        \* caller -> the updates argument of its saveSettings call
  now,        \* caller -> the local now of its saveSettings call
  globalRow,  \* caller -> the text read from the "global" row
  cur,        \* caller -> the bundle its call got from getSettings
  nextText,   \* caller -> the texts its saveSettings call writes
  ret,        \* caller -> how its latest call ended
  journal     \* the saveSettings calls made and the upserts run, in order

storeVars ==
  <<rows, clock, calls, pc, op, req, now, globalRow, cur, nextText, ret, journal>>

\* bounds of the model
MaxCalls == 2
MaxClock == 1

Callers == {"a", "b"}

\* a key's row: copies counts the rows of the table that have the key
AbsentRow ==
  [present |-> FALSE, value |-> NoText, updated_at |-> 0, saved |-> FALSE,
   copies |-> 0]
StoredRow(text) ==
  [present |-> TRUE, value |-> text, updated_at |-> 0, saved |-> FALSE,
   copies |-> 1]

\* dbFirst(env.DB, "SELECT value FROM settings WHERE key = ?", [key])?.value
dbFirst(key) == IF rows[key].present THEN rows[key].value ELSE NoText

\* a plain INSERT, which adds a row whether or not the key has one
dbRunInsert(key, text, at) ==
  [rows EXCEPT ![key] =
     [present |-> TRUE, value |-> text, updated_at |-> at, saved |-> TRUE,
      copies |-> rows[key].copies + 1]]

\* dbRun(env.DB, "INSERT ... ON CONFLICT(key) DO UPDATE ...", [key, text, at])
dbRun(key, text, at) ==
  [rows EXCEPT ![key] =
     [present |-> TRUE, value |-> text, updated_at |-> at, saved |-> TRUE,
      copies |-> IF rows[key].present THEN rows[key].copies ELSE 1]]

\* the return expression of getSettings, from the two texts read
getSettings(globalText, grokText) ==
  LET g == loadGlobalSettings(globalText)
      k == loadGrokSettings(grokText)
  IN IF g.ok /\ k.ok
       THEN Returned([global |-> g.val, grok |-> k.val])
       ELSE Thrown

\* a save that spreads the updates over the defaults, not over the current bundle
saveSettingsNextFromDefaults(current, updates) ==
  Returned(
    [global |-> Obj(Spread(DEFAULT_GLOBAL_SETTINGS.v,
                           Coalesce(Get(updates, "global_config"), EmptyObject).v)),
     grok |-> Obj(Spread(DEFAULT_GROK_SETTINGS.v,
                         Coalesce(Get(updates, "grok_config"), EmptyObject).v))])

\* saveSettings lines 169-181: the next settings, from the current bundle
saveSettingsNext(current, updates) ==
  LET globalConfig == Coalesce(Get(updates, "global_config"), EmptyObject)
      grokConfig == Coalesce(Get(updates, "grok_config"), EmptyObject)
      nextGlobal == Spread(current.global.v, globalConfig.v)
      cookie == Coalesce(Coalesce(Get(Get(updates, "grok_config"), "cf_clearance"),
                                  Get(current.grok, "cf_clearance")),
                         Str(<<>>))
      spreadGrok == Spread(current.grok.v, grokConfig.v)
      retryCodes ==
        IF IsArray(spreadGrok["retry_codes"]) THEN spreadGrok["retry_codes"]
        ELSE IF IsArray(spreadGrok["retry_status_codes"])
          THEN spreadGrok["retry_status_codes"]
        ELSE Get(DEFAULT_GROK_SETTINGS, "retry_codes")
  IN IF cookie.t # "str"
       THEN Thrown   \* value.trim is not a function
       ELSE Returned(
              [global |-> Obj(nextGlobal),
               grok |-> Obj(Spread(spreadGrok,
                          [cf_clearance |-> Str(stripCfPrefix(cookie.v)),
                           retry_codes |-> retryCodes,
                           retry_status_codes |-> retryCodes]))])

\* journal entries
Called(c) == [by |-> c, what |-> "call", key |-> "none", at |-> 0]
Upserted(c, key, at) == [by |-> c, what |-> "upsert", key |-> key, at |-> at]

NoBundle == [global |-> EmptyObject, grok |-> EmptyObject]
NoTexts == [global |-> NoText, grok |-> NoText]

----------------------------------------------------------------------------
(* Inputs: the texts a row may hold at the start, and the updates saved *)

Codes500 == Arr(<<Num(500)>>)
Codes429 == Arr(<<Num(429)>>)
CookieBare == Str(S_abc)
CookiePrefixed == Str(CfPrefix \o S_abc)
CookiePadded == Str(<<" ">> \o CfPrefix \o S_abc \o <<" ">>)
CookieTwice == Str(CfPrefix \o CfPrefix \o S_abc)
CookieInnerSpace == Str(CfPrefix \o <<" ">> \o S_abc)

GlobalValues ==
  { EmptyObject,
    Obj([log_level |-> Str(S_DEBUG), theme |-> Str(S_x)]),
    Obj([log_level |-> Null, image_cache_max_size_mb |-> Frac(0)]),
    Null }

GrokValues ==
  { EmptyObject,
    Null,
    Num(5),
    Str(S_x),
    Arr(<<Num(1)>>),
    Obj([retry_status_codes |-> Codes500]),
    Obj([retry_codes |-> Codes429]),
    Obj([retry_codes |-> Codes429, retry_status_codes |-> Codes500]),
    Obj([retry_codes |-> Str(S_x), retry_status_codes |-> Codes500]),
    Obj([retry_codes |-> Null]),
    Obj([cf_clearance |-> CookieBare]),
    Obj([cf_clearance |-> CookiePrefixed]),
    Obj([cf_clearance |-> CookiePadded]),
    Obj([cf_clearance |-> CookieTwice]),
    Obj([cf_clearance |-> CookieInnerSpace]),
    Obj([cf_clearance |-> Num(5)]),
    Obj([cf_clearance |-> Null]),
    Obj([max_retry |-> Num(2)]),
    Obj([max_retry |-> Num(-1)]),
    Obj([max_retry |-> Frac(2)]),
    Obj([max_retry |-> Str(S_x)]),
    Obj([max_retry |-> Null]),
    Obj([legacy |-> Obj([a |-> Num(1)])]) }

GlobalRows ==
  {AbsentRow, StoredRow(GarbageText)}
    \cup {StoredRow(JsonText(j)) : j \in GlobalValues}

GrokRows ==
  {AbsentRow, StoredRow(EmptyText), StoredRow(GarbageText)}
    \cup {StoredRow(JsonText(j)) : j \in GrokValues}

\* the updates argument of saveSettings
Updates ==
  { EmptyObject,
    Obj([global_config |-> Obj([log_level |-> Str(S_DEBUG)])]),
    Obj([grok_config |-> Obj([retry_status_codes |-> Codes500])]),
    Obj([grok_config |-> Obj([retry_codes |-> Codes429])]),
    Obj([grok_config |-> Obj([cf_clearance |-> Str(CfPrefix \o S_xyz)])]),
    Obj([grok_config |-> Obj([cf_clearance |-> CookieTwice])]),
    Obj([grok_config |-> Obj([max_retry |-> NonFinite])]),
    Obj([grok_config |-> Obj([max_retry |-> Num(-1)])]),
    Obj([global_config |-> Obj([image_mode |-> Str(S_x)]),
         grok_config |-> Obj([temporary |-> Bool(TRUE), api_key |-> Undef])]) }

----------------------------------------------------------------------------
(* getSettings (lines 144-160) and saveSettings (lines 162-193), step by step *)

StoreInit ==
  /\ rows \in [global : GlobalRows, grok : GrokRows]
  /\ clock = 0
  /\ calls = 0
  /\ pc = [c \in Callers |-> "idle"]
  /\ op = [c \in Callers |-> "none"]
  /\ req = [c \in Callers |-> EmptyObject]
  /\ now = [c \in Callers |-> 0]
  /\ globalRow = [c \in Callers |-> NoText]
  /\ cur = [c \in Callers |-> NoBundle]
  /\ nextText = [c \in Callers |-> NoTexts]
  /\ ret = [c \in Callers |-> Returned(Undef)]
  /\ journal = <<>>

\* a caller calls getSettings(env)
CallGetSettings(c) ==
  /\ pc[c] = "idle"
  /\ calls < MaxCalls
  /\ calls' = calls + 1
  /\ op' = [op EXCEPT ![c] = "get"]
  /\ pc' = [pc EXCEPT ![c] = "readGlobal"]
  /\ UNCHANGED <<rows, clock, req, now, globalRow, cur, nextText, ret, journal>>

\* a caller calls saveSettings(env, updates): line 166, then getSettings
CallSaveSettings(c, updates) ==
  /\ pc[c] = "idle"
  /\ calls < MaxCalls
  /\ calls' = calls + 1
  /\ op' = [op EXCEPT ![c] = "save"]
  /\ req' = [req EXCEPT ![c] = updates]
  /\ \E t \in clock..MaxClock :     \* nowMs(): time does not run backwards
       /\ clock' = t
       /\ now' = [now EXCEPT ![c] = t]
  /\ pc' = [pc EXCEPT ![c] = "readGlobal"]
  /\ journal' = Append(journal, Called(c))
  /\ UNCHANGED <<rows, globalRow, cur, nextText, ret>>

\* lines 145-149: the "global" row is read
ReadGlobalRow(c) ==
  /\ pc[c] = "readGlobal"
  /\ globalRow' = [globalRow EXCEPT ![c] = dbFirst("global")]
  /\ pc' = [pc EXCEPT ![c] = "readGrok"]
  /\ UNCHANGED <<rows, clock, calls, op, req, now, cur, nextText, ret, journal>>

\* lines 150-159: the "grok" row is read and both texts are loaded; a
\* saveSettings call goes on to lines 169-181
ReadGrokRow(c) ==
  /\ pc[c] = "readGrok"
  /\ LET bundle == getSettings(globalRow[c], dbFirst("grok"))
         next == saveSettingsNext(bundle.val, req[c])
     IN IF ~bundle.ok
          THEN /\ ret' = [ret EXCEPT ![c] = Thrown]
               /\ pc' = [pc EXCEPT ![c] = "idle"]
               /\ UNCHANGED <<cur, nextText>>
        ELSE IF op[c] = "get"
          THEN /\ ret' = [ret EXCEPT ![c] = bundle]
               /\ cur' = [cur EXCEPT ![c] = bundle.val]
               /\ pc' = [pc EXCEPT ![c] = "idle"]
               /\ UNCHANGED nextText
        ELSE IF ~next.ok
          THEN /\ ret' = [ret EXCEPT ![c] = Thrown]
               /\ cur' = [cur EXCEPT ![c] = bundle.val]
               /\ pc' = [pc EXCEPT ![c] = "idle"]
               /\ UNCHANGED nextText
        ELSE /\ cur' = [cur EXCEPT ![c] = bundle.val]
             /\ nextText' = [nextText EXCEPT ![c] =
                  [global |-> JsonStringify(next.val.global),
                   grok |-> JsonStringify(next.val.grok)]]
             /\ pc' = [pc EXCEPT ![c] = "writeGlobal"]
             /\ UNCHANGED ret
  /\ UNCHANGED <<rows, clock, calls, op, req, now, globalRow, journal>>

\* lines 183-187: the "global" row is upserted
WriteGlobalRow(c) ==
  /\ pc[c] = "writeGlobal"
  /\ rows' = dbRun("global", nextText[c].global, now[c])
  /\ journal' = Append(journal, Upserted(c, "global", now[c]))
  /\ pc' = [pc EXCEPT ![c] = "writeGrok"]
  /\ UNCHANGED <<clock, calls, op, req, now, globalRow, cur, nextText, ret>>

\* lines 188-192: the "grok" row is upserted and saveSettings returns
WriteGrokRow(c) ==
  /\ pc[c] = "writeGrok"
  /\ rows' = dbRun("grok", nextText[c].grok, now[c])
  /\ journal' = Append(journal, Upserted(c, "grok", now[c]))
  /\ ret' = [ret EXCEPT ![c] = Returned(Undef)]
  /\ pc' = [pc EXCEPT ![c] = "idle"]
  /\ UNCHANGED <<clock, calls, op, req, now, globalRow, cur, nextText>>

----------------------------------------------------------------------------
(* Retry policy (settings.ts lines 197-231) *)

DEFAULT_MAX_RETRY == 3
DEFAULT_RETRY_CODES == <<401, 429, 403>>

BackoffStepMs == 500

normalizeMaxRetry(value) ==
  IF ~IsNumber(value) \/ ~IsFinite(value)
    THEN DEFAULT_MAX_RETRY
    ELSE IF value.v < 0 THEN 0 ELSE value.v   \* Math.max(0, Math.floor(value))

normalizeRetryCodes(value) ==
  IF ~IsArray(value)
    THEN DEFAULT_RETRY_CODES
    ELSE LET codes == SelectSeq(value.v, LAMBDA code : IsInteger(code))
         IN IF Len(codes) # 0
              THEN [i \in DOMAIN codes |-> codes[i].v]
              ELSE DEFAULT_RETRY_CODES

defaultExtractStatus(error) ==
  IF error.t \notin {"obj", "arr"}
    THEN Null
    ELSE LET details == Get(error, "details")
             nested == IF details.t \in {"undef", "null"}
                         THEN Undef
                         ELSE Get(details, "status")
             status == Coalesce(Get(error, "status"), nested)
         IN IF IsInteger(status) THEN status ELSE Null

\* new RetryConfig(settings)
RetryConfig(settings) ==
  [maxRetry |-> normalizeMaxRetry(Get(settings, "max_retry")),
   retryCodes |-> normalizeRetryCodes(
       Coalesce(Get(settings, "retry_codes"), Get(settings, "retry_status_codes")))]

\* cfg.retryCodes.includes(status)
Includes(codes, n) == \E i \in DOMAIN codes : codes[i] = n

----------------------------------------------------------------------------
(* withRetry (settings.ts lines 236-283), one call *)

VARIABLES
  settings,     \* opts.settings
  extractor,    \* "default": opts.extractStatus is absent; "custom": supplied
  onRetry,      \* whether opts.onRetry is supplied
  rpc,          \* where the call stands
  cfg,          \* the RetryConfig of the call
  attempts,     \* the local attempts
  invocations,  \* invocations of action so far
  error,        \* the error caught from the latest failed invocation
  status,       \* the local status of the latest failed invocation
  nextAttempt,  \* the local nextAttempt
  delay,        \* the local delay
  settled,      \* how the call ended: resolved, or rejected with an error
  events        \* what happened so far, in order

retryVars == <<settings, extractor, onRetry, rpc, cfg, attempts, invocations,
               error, status, nextAttempt, delay, settled, events>>


\* bound of the model: the largest max_retry of the settings tried
MaxRetry == 2

\* what is thrown: by whom, at which invocation, with which value
Thrower(by, n, body) == [by |-> by, n |-> n, body |-> body]
NoError == Thrower("nobody", 0, Undef)

Unsettled == [how |-> "pending", error |-> NoError]
Resolved == [how |-> "resolved", error |-> NoError]
Rejected(e) == [how |-> "rejected", error |-> e]

\* an event: its kind, the invocation or attempt number or the delay it is
\* about, a status, and an error
Event(e, n, st, err) == [e |-> e, n |-> n, status |-> st, error |-> err]

RetrySettings ==
  {Obj([max_retry |-> Num(n), retry_codes |-> Codes429]) : n \in 0..MaxRetry}
    \cup { DEFAULT_GROK_SETTINGS,
           EmptyObject,
           Obj([max_retry |-> Num(-1)]),
           Obj([max_retry |-> Frac(1), retry_status_codes |-> Codes500]),
           Obj([max_retry |-> Str(S_x),
                retry_codes |-> Arr(<<Str(S_x), Num(429), Frac(500), Num(429)>>)]),
           Obj([max_retry |-> Num(1), retry_codes |-> Arr(<<>>)]) }

\* what action may throw when the default extractor reads it
ErrorBodies ==
  { Obj([status |-> Num(429)]),
    Obj([status |-> Num(401)]),
    Obj([status |-> Num(418)]),
    Obj([status |-> Num(500)]),
    Obj([status |-> Frac(429)]),
    Obj([message |-> Str(S_x)]),
    Obj([details |-> Obj([status |-> Num(429)])]),
    Obj([status |-> Str(S_x), details |-> Obj([status |-> Num(429)])]),
    Str(S_x) }

\* what action may throw when a supplied extractor reads it
OpaqueBodies == {Obj([status |-> Num(418)]), Str(S_x)}

\* what a supplied extractor may return
ExtractorReturns == {Num(429), Num(418), Frac(429), Null, Undef}

RetryInit ==
  /\ settings \in RetrySettings
  /\ extractor \in {"default", "custom"}
  /\ onRetry \in BOOLEAN
  /\ rpc = "start"
  /\ cfg = [maxRetry |-> 0, retryCodes |-> <<>>]
  /\ attempts = 0
  /\ invocations = 0
  /\ error = NoError
  /\ status = Null
  /\ nextAttempt = 0
  /\ delay = 0
  /\ settled = Unsettled
  /\ events = <<>>

\* lines 244-252: the policy is derived and action is invoked
CallWithRetry ==
  /\ rpc = "start"
  /\ cfg' = RetryConfig(settings)
  /\ attempts' = 0
  /\ invocations' = 1
  /\ events' = Append(events, Event("invoke", 1, Null, NoError))
  /\ rpc' = "action"
  /\ UNCHANGED <<settings, extractor, onRetry, error, status, nextAttempt, delay, settled>>

\* lines 252-254: the invocation succeeds
ActionResolves ==
  /\ rpc = "action"
  /\ settled' = Resolved
  /\ events' = Append(events, Event("resolve", invocations, Null, NoError))
  /\ rpc' = "success"
  /\ UNCHANGED <<settings, extractor, onRetry, cfg, attempts, invocations,
                 error, status, nextAttempt, delay>>

\* a classification that retries every integer status
RetryableAnyStatus(st, c) == st.t = "num"

\* line 264: cfg.retryCodes.includes(status), for an integer status or null
Retryable(st, c) == st.t = "num" /\ Includes(c.retryCodes, st.v)

\* a budget check that is off by one
ExhaustedLate(a, c) == a > c.maxRetry

\* line 265: attempts >= cfg.maxRetry
Exhausted(a, c) == a >= c.maxRetry

\* a backoff that does not grow
BackoffDelayFlat(n) == BackoffStepMs

\* line 276: 500 * nextAttempt
BackoffDelay(n) == BackoffStepMs * n

\* an executor that wraps the error it rethrows
PropagateWrapped(caught) == Rejected(Thrower("withRetry", caught.n, caught.body))

\* lines 261 and 272: throw error
Propagate(caught) == Rejected(caught)

\* a policy derived again from the settings at every decision
PolicyReread(snapshot, current) == RetryConfig(current)

\* lines 264-265 read cfg, the policy derived at line 244
Policy(snapshot, current) == snapshot

\* an attempt number that is not advanced
NextAttemptStale(a) == a

\* line 275: attempts + 1
NextAttempt(a) == a + 1

\* lines 255-278: the invocation throws body, the extractor returns rawStatus
Catch(body, rawStatus) ==
  LET caught == Thrower("action", invocations, body)
      st == IF IsInteger(rawStatus) THEN rawStatus ELSE Null
      policy == Policy(cfg, settings)
      retryable == Retryable(st, policy)
      failed == Append(events, Event("fail", invocations, st, caught))
  IN /\ error' = caught
     /\ status' = st
     /\ IF st = Null \/ ~retryable \/ Exhausted(attempts, policy)
          THEN /\ settled' = Propagate(caught)
               /\ events' = Append(failed,
                    Event("reject", invocations, st, Propagate(caught).error))
               /\ rpc' = "failed"
               /\ UNCHANGED <<nextAttempt, delay>>
          ELSE /\ nextAttempt' = NextAttempt(attempts)
               /\ delay' = BackoffDelay(NextAttempt(attempts))
               /\ IF onRetry
                    THEN /\ events' = Append(failed,
                              Event("observer", NextAttempt(attempts), st, caught))
                         /\ rpc' = "observer"
                    ELSE /\ events' = Append(failed,
                              Event("delay", BackoffDelay(NextAttempt(attempts)), st, caught))
                         /\ rpc' = "sleep"
               /\ UNCHANGED settled
     /\ UNCHANGED <<settings, extractor, onRetry, cfg, attempts, invocations>>

\* the invocation fails and defaultExtractStatus reads the error
ActionRejects(body) ==
  /\ rpc = "action"
  /\ extractor = "default"
  /\ Catch(body, defaultExtractStatus(body))

\* the invocation fails and the supplied extractor returns rawStatus
ActionRejectsCustom(body, rawStatus) ==
  /\ rpc = "action"
  /\ extractor = "custom"
  /\ Catch(body, rawStatus)

\* the invocation fails and the supplied extractor throws (line 256)
ExtractorThrows(body) ==
  /\ rpc = "action"
  /\ extractor = "custom"
  /\ LET caught == Thrower("action", invocations, body)
         thrown == Thrower("extractor", invocations, Str(S_x))
     IN /\ error' = caught
        /\ status' = Null   \* rawStatus and status are never bound
        /\ settled' = Rejected(thrown)
        /\ events' = events \o <<Event("fail", invocations, Null, caught),
                               Event("extractorThrows", invocations, Null, thrown),
                               Event("reject", invocations, Null, thrown)>>
  /\ rpc' = "failed"
  /\ UNCHANGED <<settings, extractor, onRetry, cfg, attempts, invocations,
                 nextAttempt, delay>>

\* line 278 completes and line 279 starts the delay
ObserverReturns ==
  /\ rpc = "observer"
  /\ events' = Append(events, Event("delay", delay, status, error))
  /\ rpc' = "sleep"
  /\ UNCHANGED <<settings, extractor, onRetry, cfg, attempts, invocations,
                 error, status, nextAttempt, delay, settled>>

\* line 278: opts.onRetry throws, or the promise it returns rejects
ObserverThrows ==
  /\ rpc = "observer"
  /\ LET thrown == Thrower("observer", nextAttempt, Str(S_x))
     IN /\ settled' = Rejected(thrown)
        /\ events' = events \o <<Event("observerThrows", nextAttempt, status, thrown),
                               Event("reject", invocations, status, thrown)>>
  /\ rpc' = "failed"
  /\ UNCHANGED <<settings, extractor, onRetry, cfg, attempts, invocations,
                 error, status, nextAttempt, delay>>

\* lines 279-280, 252: the delay elapses and action is invoked again
SleepElapses ==
  /\ rpc = "sleep"
  /\ attempts' = nextAttempt
  /\ invocations' = invocations + 1
  /\ events' = Append(events, Event("invoke", invocations + 1, Null, NoError))
  /\ rpc' = "action"
  /\ UNCHANGED <<settings, extractor, onRetry, cfg, error, status, nextAttempt,
                 delay, settled>>

----------------------------------------------------------------------------
(* deepMerge (lines 98-118) applied to a base and an override *)

VARIABLES
  mergeBase,      \* the base argument
  mergeOverride,  \* the override argument
  mergeResult,    \* what deepMerge returned
  mergeState      \* "idle", "ready" (not yet called) or "done"

mergeVars == <<mergeBase, mergeOverride, mergeResult, mergeState>>

vars == <<storeVars, retryVars, mergeVars>>

Nested == Obj([x |-> Num(1), y |-> Arr(<<Num(1), Num(2)>>)])

MergeBases ==
  { EmptyObject,
    DEFAULT_GLOBAL_SETTINGS,
    Obj([a |-> Num(1), n |-> Nested]),
    Obj([a |-> Arr(<<Num(1)>>), n |-> Obj([m |-> Nested])]),
    Obj([a |-> Null, n |-> Arr(<<Nested>>)]),
    Null,
    Num(1),
    Arr(<<Num(1)>>) }

MergeOverrides ==
  { EmptyObject,
    Undef,
    Null,
    Num(5),
    Arr(<<Num(9)>>),
    Obj([a |-> Num(2)]),
    Obj([a |-> Undef]),
    Obj([a |-> Obj([q |-> Num(1)])]),
    Obj([b |-> Null]),
    Obj([n |-> Num(3)]),
    Obj([n |-> Obj([x |-> Num(2)])]),
    Obj([n |-> Obj([y |-> Arr(<<Num(3)>>), z |-> Null])]),
    Obj([n |-> Obj([m |-> Obj([x |-> Str(S_x)])])]),
    Obj([n |-> Arr(<<Num(3)>>), log_level |-> Str(S_DEBUG)]),
    Obj(ProtoKey :> Obj([q |-> Num(1)])),
    Obj([b |-> Obj(ProtoKey :> Num(1))]) }

MergeInit ==
  /\ mergeBase \in MergeBases
  /\ mergeOverride \in MergeOverrides
  /\ mergeResult = Undef
  /\ mergeState = "ready"

\* no call of deepMerge is followed
MergeIdle ==
  /\ mergeBase = Undef
  /\ mergeOverride = Undef
  /\ mergeResult = Undef
  /\ mergeState = "idle"

\* deepMerge(base, override) is called and returns
CallDeepMerge ==
  /\ mergeState = "ready"
  /\ mergeResult' = deepMerge(mergeBase, mergeOverride)
  /\ mergeState' = "done"
  /\ UNCHANGED <<mergeBase, mergeOverride>>

\* bound of the model: changes of the settings object during one call
MaxSettingsChanges == 1

\* the caller's settings object, or its retry_codes array, is changed while
\* the call is in flight
SettingsChange(s) ==
  /\ rpc \in {"action", "observer", "sleep"}
  /\ s # settings
  /\ Len(SelectSeq(events, LAMBDA ev : ev.e = "settings")) < MaxSettingsChanges
  /\ settings' = s
  /\ events' = Append(events, Event("settings", 0, Null, NoError))
  /\ UNCHANGED <<extractor, onRetry, rpc, cfg, attempts, invocations, error,
                 status, nextAttempt, delay, settled>>

----------------------------------------------------------------------------
(* Specifications *)

\* no call of getSettings / saveSettings is made
StoreIdle ==
  /\ rows = [global |-> AbsentRow, grok |-> AbsentRow]
  /\ clock = 0
  /\ calls = 0
  /\ pc = [c \in Callers |-> "idle"]
  /\ op = [c \in Callers |-> "none"]
  /\ req = [c \in Callers |-> EmptyObject]
  /\ now = [c \in Callers |-> 0]
  /\ globalRow = [c \in Callers |-> NoText]
  /\ cur = [c \in Callers |-> NoBundle]
  /\ nextText = [c \in Callers |-> NoTexts]
  /\ ret = [c \in Callers |-> Returned(Undef)]
  /\ journal = <<>>

\* no call of withRetry is made
RetryIdle ==
  /\ settings = EmptyObject
  /\ extractor = "default"
  /\ onRetry = FALSE
  /\ rpc = "idle"
  /\ cfg = [maxRetry |-> 0, retryCodes |-> <<>>]
  /\ attempts = 0
  /\ invocations = 0
  /\ error = NoError
  /\ status = Null
  /\ nextAttempt = 0
  /\ delay = 0
  /\ settled = Unsettled
  /\ events = <<>>

Init == StoreInit /\ RetryIdle /\ MergeIdle

\* the settings store, one caller at a time
Next ==
  \/ CallGetSettings("a") /\ UNCHANGED <<retryVars, mergeVars>>
  \/ \E u \in Updates : CallSaveSettings("a", u) /\ UNCHANGED <<retryVars, mergeVars>>
  \/ ReadGlobalRow("a") /\ UNCHANGED <<retryVars, mergeVars>>
  \/ ReadGrokRow("a") /\ UNCHANGED <<retryVars, mergeVars>>
  \/ WriteGlobalRow("a") /\ UNCHANGED <<retryVars, mergeVars>>
  \/ WriteGrokRow("a") /\ UNCHANGED <<retryVars, mergeVars>>

Spec == Init /\ [][Next]_vars

\* one withRetry call
NextRetry ==
  \/ CallWithRetry /\ UNCHANGED <<storeVars, mergeVars>>
  \/ ActionResolves /\ UNCHANGED <<storeVars, mergeVars>>
  \/ \E b \in ErrorBodies : ActionRejects(b) /\ UNCHANGED <<storeVars, mergeVars>>
  \/ \E b \in OpaqueBodies, r \in ExtractorReturns :
       ActionRejectsCustom(b, r) /\ UNCHANGED <<storeVars, mergeVars>>
  \/ \E b \in OpaqueBodies : ExtractorThrows(b) /\ UNCHANGED <<storeVars, mergeVars>>
  \/ ObserverReturns /\ UNCHANGED <<storeVars, mergeVars>>
  \/ ObserverThrows /\ UNCHANGED <<storeVars, mergeVars>>
  \/ SleepElapses /\ UNCHANGED <<storeVars, mergeVars>>

InitRetry == StoreIdle /\ RetryInit /\ MergeIdle

SpecRetry == InitRetry /\ [][NextRetry]_vars

\* one withRetry call during which the settings object may change
NextRetryMutable ==
  \/ NextRetry
  \/ \E s \in RetrySettings : SettingsChange(s) /\ UNCHANGED <<storeVars, mergeVars>>

SpecRetryMutable == InitRetry /\ [][NextRetryMutable]_vars

\* one deepMerge call
NextMerge == CallDeepMerge /\ UNCHANGED <<storeVars, retryVars>>

InitMerge == StoreIdle /\ RetryIdle /\ MergeInit

SpecMerge == InitMerge /\ [][NextMerge]_vars

\* one withRetry call whose invocations, observer calls and delays all complete
SpecRetryFair == SpecRetry /\ WF_vars(NextRetry)

\* the settings store with two callers whose calls interleave at the awaits
ConcRows ==
  { [global |-> AbsentRow, grok |-> AbsentRow],
    [global |-> StoredRow(JsonText(Obj([theme |-> Str(S_x)]))),
     grok |-> StoredRow(JsonText(Obj([cf_clearance |-> CookiePrefixed])))] }

\* the updates the two callers save
ConcUpdates ==
  { Obj([global_config |-> Obj([log_level |-> Str(S_DEBUG)])]),
    Obj([grok_config |-> Obj([retry_codes |-> Codes429])]),
    Obj([global_config |-> Obj([image_mode |-> Str(S_x)]),
         grok_config |-> Obj([temporary |-> Bool(TRUE), api_key |-> Undef])]) }

InitConc ==
  /\ StoreInit
  /\ rows \in ConcRows
  /\ RetryIdle
  /\ MergeIdle

NextConc ==
  \/ \E c \in Callers : CallGetSettings(c) /\ UNCHANGED <<retryVars, mergeVars>>
  \/ \E c \in Callers, u \in ConcUpdates : CallSaveSettings(c, u) /\ UNCHANGED <<retryVars, mergeVars>>
  \/ \E c \in Callers : ReadGlobalRow(c) /\ UNCHANGED <<retryVars, mergeVars>>
  \/ \E c \in Callers : ReadGrokRow(c) /\ UNCHANGED <<retryVars, mergeVars>>
  \/ \E c \in Callers : WriteGlobalRow(c) /\ UNCHANGED <<retryVars, mergeVars>>
  \/ \E c \in Callers : WriteGrokRow(c) /\ UNCHANGED <<retryVars, mergeVars>>

SpecConc == InitConc /\ [][NextConc]_vars

----------------------------------------------------------------------------
(* Claims about withRetry, checked under SpecRetry *)

EventsOf(kind) == SelectSeq(events, LAMBDA ev : ev.e = kind)

\* every invocation that failed so far failed with an integer status that is
\* a member of the policy's retryCodes
AlwaysRetryableFailure ==
  \A i \in DOMAIN events :
    events[i].e = "fail" =>
      /\ events[i].status.t = "num"
      /\ \E j \in DOMAIN cfg.retryCodes : cfg.retryCodes[j] = events[i].status.v

\* a supplied extractor or observer threw
CallbackThrew ==
  \E i \in DOMAIN events : events[i].e \in {"extractorThrows", "observerThrows"}

C2_UnretryableShortCircuit ==
  \A i \in DOMAIN events :
    (/\ events[i].e = "fail"
     /\ \/ events[i].status.t # "num"
        \/ \A j \in DOMAIN cfg.retryCodes : cfg.retryCodes[j] # events[i].status.v)
    => /\ rpc = "failed"
       /\ settled.how = "rejected"
       /\ invocations = events[i].n
       /\ \A k \in DOMAIN events :
            k > i => events[k].e \in {"extractorThrows", "reject"}
       /\ (events[i].n = 1 =>
             /\ Len(EventsOf("invoke")) = 1
             /\ Len(EventsOf("observer")) = 0
             /\ Len(EventsOf("delay")) = 0)

\* an unretryable failure at the second invocation, with retries still left
C2_Witness ==
  /\ rpc = "failed"
  /\ invocations = 2
  /\ attempts < cfg.maxRetry
  /\ status = Num(418)
  /\ onRetry

C4_LinearBackoff ==
  LET delays == EventsOf("delay")
  IN /\ \A k \in DOMAIN delays : delays[k].n = 500 * k
     /\ Len(delays) <= cfg.maxRetry
     /\ Len(delays) \in {invocations - 1, invocations}
     /\ \A i \in DOMAIN events :
          (events[i].e = "invoke" /\ events[i].n > 1) =>
            events[i - 1] = Event("delay", 500 * (events[i].n - 1),
                                  events[i - 1].status, events[i - 1].error)

C4_Witness ==
  LET delays == EventsOf("delay")
  IN /\ Len(delays) = 3
     /\ delays[1].n = 500 /\ delays[2].n = 1000 /\ delays[3].n = 1500
     /\ rpc = "action"

----------------------------------------------------------------------------
(* Claims about the settings store, checked under Spec *)

\* a caller holds a bundle that getSettings returned to it
HasLoaded(c) == cur[c] # NoBundle

\* the JSON value of the "grok" row
SavedGrok == rows["grok"].value.val

\* C5: in every loaded bundle and in every "grok" row a save wrote, the
\* fields retry_codes and retry_status_codes are both there and are equal.
C5_RetryAliasEqual ==
  /\ \A c \in Callers :
       HasLoaded(c) =>
         /\ {"retry_codes", "retry_status_codes"} \subseteq DOMAIN cur[c].grok.v
         /\ cur[c].grok.v["retry_codes"] = cur[c].grok.v["retry_status_codes"]
  /\ rows["grok"].saved =>
       /\ SavedGrok.t = "obj"
       /\ {"retry_codes", "retry_status_codes"} \subseteq DOMAIN SavedGrok.v
       /\ SavedGrok.v["retry_codes"] = SavedGrok.v["retry_status_codes"]

\* a row that stored differing arrays under the two names, loaded and saved
C5_Witness ==
  /\ rows["grok"].saved
  /\ pc["a"] = "idle"
  /\ calls = 1
  /\ Get(cur["a"].grok, "retry_codes") = Codes429
  /\ Get(SavedGrok, "retry_status_codes") = Codes429

\* exactly one of the two names holds an array in o, and that array
ExactlyOneSupplied(o) ==
  IsArray(Get(o, "retry_codes")) # IsArray(Get(o, "retry_status_codes"))

Supplied(o) ==
  IF IsArray(Get(o, "retry_codes"))
    THEN Get(o, "retry_codes")
    ELSE Get(o, "retry_status_codes")

\* C6, as stated: when exactly one of retry_codes / retry_status_codes is
\* supplied as an array, in the text loaded or in the grok_config saved, both
\* fields of the loaded settings, or of the row written, equal that array.
C6_AsStated ==
  /\ (pc["a"] = "idle" /\ op["a"] = "get" /\ ret["a"].ok) =>
       LET parsed == ParseRaw(dbFirst("grok"))
       IN ExactlyOneSupplied(parsed) =>
            /\ Get(ret["a"].val.grok, "retry_codes") = Supplied(parsed)
            /\ Get(ret["a"].val.grok, "retry_status_codes") = Supplied(parsed)
  /\ (pc["a"] = "idle" /\ op["a"] = "save" /\ ret["a"].ok) =>
       LET config == Get(req["a"], "grok_config")
       IN ExactlyOneSupplied(config) =>
            /\ Get(SavedGrok, "retry_codes") = Supplied(config)
            /\ Get(SavedGrok, "retry_status_codes") = Supplied(config)

\* a cookie value in its bare form
Bare(x) == x.t = "str" /\ Trim(x.v) = x.v /\ ~StartsWith(x.v, CfPrefix)

\* C7, as stated: the cf_clearance of every loaded bundle and of every "grok"
\* row a save wrote is bare: trimmed, and not starting with "cf_clearance=".
C7_AsStated ==
  /\ \A c \in Callers : HasLoaded(c) => Bare(Get(cur[c].grok, "cf_clearance"))
  /\ rows["grok"].saved => Bare(Get(SavedGrok, "cf_clearance"))

\* C8, as stated: getSettings never throws, whatever the two rows hold; the
\* bundle it returns has every default field, and is exactly the defaults
\* when both rows are absent.
C8_AsStated ==
  \A c \in Callers :
    (pc[c] = "idle" /\ op[c] = "get") =>
      /\ ret[c].ok
      /\ GlobalKeys \subseteq DOMAIN ret[c].val.global.v
      /\ GrokKeys \subseteq DOMAIN ret[c].val.grok.v
      /\ (~rows["global"].present /\ ~rows["grok"].present) =>
           ret[c].val = [global |-> DEFAULT_GLOBAL_SETTINGS,
                         grok |-> DEFAULT_GROK_SETTINGS]

\* C9, as stated: a loaded bundle has no key that is not a key of the
\* defaults.
C9_AsStated ==
  \A c \in Callers :
    HasLoaded(c) =>
      /\ DOMAIN cur[c].global.v \subseteq GlobalKeys
      /\ DOMAIN cur[c].grok.v \subseteq GrokKeys

NonNegativeInteger(x) == x.t = "num" /\ x.v >= 0

\* C10, as stated: max_retry is a non-negative integer in every loaded bundle
\* and in every "grok" row a save wrote; a stored max_retry that is not a
\* finite number is loaded as the default 3; and the policy derived from any
\* loaded settings has a non-negative integer maxRetry.
C10_AsStated ==
  /\ \A c \in Callers :
       HasLoaded(c) =>
         /\ NonNegativeInteger(Get(cur[c].grok, "max_retry"))
         /\ RetryConfig(cur[c].grok).maxRetry \in Nat
  /\ rows["grok"].saved => NonNegativeInteger(Get(SavedGrok, "max_retry"))
  /\ (pc["a"] = "idle" /\ op["a"] = "get" /\ ret["a"].ok) =>
       LET stored == Get(ParseRaw(dbFirst("grok")), "max_retry")
       IN (stored.t # "undef" /\ ~IsFinite(stored)) =>
            Get(ret["a"].val.grok, "max_retry") = Num(DefaultSettingsMaxRetry)

RECURSIVE FirstOccurrences(_)
FirstOccurrences(s) ==
  IF s = <<>>
    THEN <<>>
    ELSE LET r == FirstOccurrences(SubSeq(s, 1, Len(s) - 1))
         IN IF \E i \in DOMAIN r : r[i] = s[Len(s)]
              THEN r
              ELSE Append(r, s[Len(s)])

\* the integers of the configured codes, in their order
ConfiguredIntegers ==
  LET source == Coalesce(Get(settings, "retry_codes"),
                         Get(settings, "retry_status_codes"))
      ints == IF IsArray(source)
                THEN SelectSeq(source.v, LAMBDA code : code.t = "num")
                ELSE <<>>
  IN [i \in DOMAIN ints |-> ints[i].v]

\* C12, as stated: the retryCodes of a call's policy are never empty (the
\* default 401, 429, 403 when no integer is configured), are integers, hold
\* no code twice, and keep the order of the configured array.
C12_AsStated ==
  rpc \notin {"idle", "start"} =>
    /\ Len(cfg.retryCodes) > 0
    /\ \A i \in DOMAIN cfg.retryCodes : cfg.retryCodes[i] \in Int
    /\ \A i, j \in DOMAIN cfg.retryCodes :
         i # j => cfg.retryCodes[i] # cfg.retryCodes[j]
    /\ cfg.retryCodes = IF ConfiguredIntegers = <<>>
                          THEN <<401, 429, 403>>
                          ELSE FirstOccurrences(ConfiguredIntegers)

----------------------------------------------------------------------------
(* Claims about concurrent saves, checked under SpecConc *)

\* where in the journal an entry stands (0: nowhere)
IndexOf(entry) ==
  IF \E i \in DOMAIN journal : journal[i] = entry
    THEN CHOOSE i \in DOMAIN journal : journal[i] = entry
    ELSE 0

SavesOf(c) == Len(SelectSeq(journal, LAMBDA e : e = Called(c)))

\* both callers made one saveSettings call each and both calls returned
BothSaved ==
  \A c \in Callers :
    /\ SavesOf(c) = 1
    /\ op[c] = "save"
    /\ pc[c] = "idle"
    /\ ret[c] = Returned(Undef)

\* one call returned before the other was made
OneAfterTheOther ==
  \E c, d \in Callers :
    /\ c # d
    /\ IndexOf(Upserted(c, "grok", now[c])) > 0
    /\ IndexOf(Upserted(c, "grok", now[c])) < IndexOf(Called(d))

\* the fields a call's update names; the two retry code fields are one field
Field(part, k) == <<part, IF k = "retry_status_codes" THEN "retry_codes" ELSE k>>

NamedFields(c) ==
  {Field("global", k) :
     k \in DOMAIN Coalesce(Get(req[c], "global_config"), EmptyObject).v}
  \cup {Field("grok", k) :
     k \in DOMAIN Coalesce(Get(req[c], "grok_config"), EmptyObject).v}

\* the bundle getSettings returns for a pair of row texts
Loaded(texts) == getSettings(texts.global, texts.grok).val

StoredTexts == [global |-> dbFirst("global"), grok |-> dbFirst("grok")]

\* the stored settings hold, in every field the call named, what the call wrote
UpdatePresent(c) ==
  \A f \in NamedFields(c) :
    Get(Loaded(StoredTexts)[f[1]], f[2]) = Get(Loaded(nextText[c])[f[1]], f[2])

\* C13: when two saves of different fields run one after the other, the
\* stored settings hold both updates once both calls have returned.
C13_SequentialKeepsBoth ==
  (BothSaved /\ OneAfterTheOther /\ NamedFields("a") \cap NamedFields("b") = {})
    => (UpdatePresent("a") /\ UpdatePresent("b"))

\* two interleaved saves of different fields have both returned and the
\* stored settings no longer hold what one of them wrote
C13_Witness ==
  /\ BothSaved
  /\ ~OneAfterTheOther
  /\ NamedFields("a") # {}
  /\ NamedFields("b") # {}
  /\ NamedFields("a") \cap NamedFields("b") = {}
  /\ ~UpdatePresent("a")
  /\ UpdatePresent("b")

----------------------------------------------------------------------------
(* Claims about the order of the steps of withRetry, checked under SpecRetry *)

\* the failure of invocation k that a retry follows, at place i of the events
FailedAt(i, k) ==
  /\ i >= 1
  /\ events[i].e = "fail"
  /\ events[i].n = k
  /\ events[i].error = Thrower("action", k, events[i].error.body)

\* the observer calls made so far, in order
ObserverCalls == SelectSeq(events, LAMBDA ev : ev.e = "observer")

\* invocations started and not yet ended
InFlight ==
  Len(EventsOf("invoke")) - Len(EventsOf("fail")) - Len(EventsOf("resolve"))

\* C14: the steps of a call are in sequence. Invocation k+1 starts only after
\* the delay of retry k, which starts only after the observer call of retry k
\* (if an observer is supplied), which is made once, with k, the status and
\* the error of the failed invocation k, right after that failure; the
\* observer's attempt numbers are 1, 2, ... and at most maxRetry; a success or
\* a rejection ends the events and no observer call stands between the last
\* failure and it; and at most one invocation is in flight.
C14_StepOrder ==
  /\ \A i \in DOMAIN events :
       LET ev == events[i] IN
         /\ (ev.e = "invoke" /\ ev.n > 1) =>
              /\ i > 2
              /\ events[i - 1].e = "delay"
              /\ events[i - 1].n = BackoffStepMs * (ev.n - 1)
              /\ IF onRetry
                   THEN /\ events[i - 2].e = "observer"
                        /\ events[i - 2].n = ev.n - 1
                        /\ FailedAt(i - 3, ev.n - 1)
                   ELSE FailedAt(i - 2, ev.n - 1)
         /\ ev.e = "observer" =>
              /\ onRetry
              /\ FailedAt(i - 1, ev.n)
              /\ ev.status = events[i - 1].status
              /\ ev.error = events[i - 1].error
              /\ ev.status.t = "num"
              /\ ev.n <= cfg.maxRetry
         /\ ev.e = "delay" =>
              IF onRetry THEN events[i - 1].e = "observer"
                         ELSE events[i - 1].e = "fail"
         /\ ev.e = "resolve" => (i = Len(events) /\ events[i - 1].e = "invoke")
         /\ ev.e = "reject" =>
              /\ i = Len(events)
              /\ events[i - 1].e \in {"fail", "extractorThrows", "observerThrows"}
  /\ \A j \in DOMAIN ObserverCalls : ObserverCalls[j].n = j
  /\ InFlight \in {0, 1}
  /\ rpc = "action" <=> InFlight = 1

\* two retries with an observer, and the third invocation started
C14_Witness ==
  /\ onRetry
  /\ Len(ObserverCalls) = 2
  /\ invocations = 3
  /\ rpc = "action"

----------------------------------------------------------------------------
(* Termination of withRetry, checked under SpecRetryFair *)

Terminal == rpc \in {"success", "failed"}

\* C15: a call whose invocations, observer calls and delays all complete ends
\* as a success or as a failure and stays so, after at most maxRetry + 1
\* invocations; a success is the resolution of the latest invocation, the only
\* one that succeeded, and no step follows the end of the call.
C15_Termination ==
  /\ <>[]Terminal
  /\ [](rpc # "start" => invocations <= cfg.maxRetry + 1)
  /\ [](rpc = "success" =>
          /\ settled = Resolved
          /\ EventsOf("resolve") = <<Event("resolve", invocations, Null, NoError)>>
          /\ events[Len(events)].e = "resolve")
  /\ [](rpc = "failed" => settled.how = "rejected")
  /\ [][~Terminal]_vars

\* a call that succeeded at its last allowed invocation
C15_Witness ==
  /\ rpc = "success"
  /\ cfg.maxRetry = 2
  /\ invocations = 3

----------------------------------------------------------------------------
(* The policy of a call, checked under SpecRetryMutable *)

\* the decision taken at the failure at place i of the events was a retry
RetriedAt(i) ==
  \E j \in DOMAIN events :
    /\ j > i
    /\ events[j].e \in {"observer", "delay"}
    /\ \A m \in (i + 1)..(j - 1) : events[m].e = "settings"

\* the decision at place i is taken (the event after it is not the last word)
DecidedAt(i) ==
  \E j \in DOMAIN events :
    j > i /\ events[j].e \in {"observer", "delay", "reject", "extractorThrows"}

\* every retry decision taken so far is the one the policy c gives
DecisionsFollow(c) ==
  \A i \in DOMAIN events :
    (events[i].e = "fail" /\ DecidedAt(i) /\ events[i].status # Null) =>
      (RetriedAt(i) <=>
         /\ Includes(c.retryCodes, events[i].status.v)
         /\ events[i].n - 1 < c.maxRetry)

\* C16: the policy of a call is derived when the call is made, from the
\* settings as they are then, it never changes afterwards, and every retry
\* decision of the call follows it, whatever the settings object becomes.
C16_PolicySnapshot ==
  /\ [][rpc = "start" => cfg' = RetryConfig(settings)]_vars
  /\ [][rpc # "start" => cfg' = cfg]_vars
  /\ [](rpc # "start" => DecisionsFollow(cfg))

\* the settings changed during the first invocation to settings that allow no
\* retry, and the call retried all the same
C16_Witness ==
  /\ Len(events) >= 4
  /\ events[2].e = "settings"
  /\ events[3].e = "fail"
  /\ RetriedAt(3)
  /\ RetryConfig(settings).maxRetry = 0
  /\ cfg.maxRetry = 2
  /\ invocations = 3

----------------------------------------------------------------------------
(* Claims about the writes of saveSettings, checked under Spec *)

CallPlaces(c) == {i \in DOMAIN journal : journal[i] = Called(c)}

\* the upserts of caller c that follow its call at place i, up to its next call
UpsertsAfter(c, i) ==
  LET later == {j \in CallPlaces(c) : j > i}
      end == IF later = {} THEN Len(journal)
             ELSE CHOOSE j \in later : \A m \in later : j <= m
  IN SelectSeq(SubSeq(journal, i + 1, end),
               LAMBDA e : e.by = c /\ e.what = "upsert")

IsPrefix(s, t) == Len(s) <= Len(t) /\ s = SubSeq(t, 1, Len(s))

\* the latest call of caller c is a saveSettings call that returned
SaveReturned(c) == op[c] = "save" /\ pc[c] = "idle" /\ ret[c] = Returned(Undef)

SaveThrew(c) == op[c] = "save" /\ pc[c] = "idle" /\ ret[c] = Thrown

\* C17: the upserts of a saveSettings call are the "global" row and then the
\* "grok" row, with one timestamp; a call that returned made both, a call that
\* threw made none; and the table never holds two rows of one key.
C17_TwoWrites ==
  /\ \A c \in Callers : \A i \in CallPlaces(c) :
       LET made == UpsertsAfter(c, i)
           latest == \A j \in CallPlaces(c) : j <= i
       IN /\ \E t \in 0..MaxClock :
               IsPrefix(made, <<Upserted(c, "global", t), Upserted(c, "grok", t)>>)
          /\ ~latest => Len(made) \in {0, 2}
          /\ (latest /\ SaveReturned(c)) =>
               made = <<Upserted(c, "global", now[c]), Upserted(c, "grok", now[c])>>
          /\ (latest /\ SaveThrew(c)) => made = <<>>
  /\ \A k \in {"global", "grok"} : rows[k].copies <= 1

\* a save of an empty update returned, over rows that an earlier save wrote
C17_Witness ==
  /\ SaveReturned("a")
  /\ req["a"] = EmptyObject
  /\ Len(journal) = 6
  /\ rows["global"].copies = 1
  /\ rows["grok"].copies = 1

----------------------------------------------------------------------------
(* Claims about deepMerge, checked under SpecMerge *)

\* the merge of a mapping base and an override, as the claim words it
RECURSIVE StatedMerge(_, _)
StatedMerge(b, o) ==
  IF ~isPlainObject(o)
    THEN b
    ELSE Obj([k \in DOMAIN b.v \cup DOMAIN o.v |->
           IF k \notin DOMAIN o.v THEN b.v[k]
           ELSE IF isPlainObject(o.v[k]) /\ k \in DOMAIN b.v /\ isPlainObject(b.v[k])
             THEN StatedMerge(b.v[k], o.v[k])
           ELSE o.v[k]])

\* C18, as stated: for a mapping base the result of deepMerge has the keys of
\* base and of a mapping override; at a key of the override it is the merge
\* of the two values when both are mappings and the override's value
\* otherwise (arrays whole); at the other keys it is the base's value; for an
\* override that is no mapping it equals base.
C18_AsStated ==
  (mergeState = "done" /\ isPlainObject(mergeBase)) =>
    mergeResult = StatedMerge(mergeBase, mergeOverride)

----------------------------------------------------------------------------
(* The default status extraction, checked under SpecRetry *)

\* the status of an error as the claim words it: the top-level status when it
\* is a number, otherwise the nested details.status; an integer or nothing
StatedStatus(body) ==
  LET top == Get(body, "status")
      nested == Get(Get(body, "details"), "status")
      found == IF IsNumber(top) THEN top ELSE nested
  IN IF IsInteger(found) THEN found ELSE Null

\* C19, as stated: when no extractor is supplied, the status of a failed
\* invocation is the integer of the error's top-level status if that is
\* numeric and otherwise the integer of its details.status; so a status that
\* is present but not numeric gives way to an integer details.status.
C19_AsStated ==
  extractor = "default" =>
    \A i \in DOMAIN events :
      events[i].e = "fail" => events[i].status = StatedStatus(events[i].error.body)

----------------------------------------------------------------------------
(* The frame of saveSettings, checked under Spec *)

\* the bundle a getSettings call would return now
LoadedNow == Loaded(StoredTexts)

AllKeys(part) == DOMAIN LoadedNow[part].v \cup DOMAIN cur["a"][part].v

\* C20, as stated: after a save that returned, the loaded bundle differs from
\* the bundle loaded before the save only in the fields the update names (the
\* two retry code names being one field); a save of an empty update leaves
\* the loaded bundle as it was.
C20_AsStated ==
  SaveReturned("a") =>
    /\ \A part \in {"global", "grok"} : \A k \in AllKeys(part) :
         Field(part, k) \notin NamedFields("a") =>
           Get(LoadedNow[part], k) = Get(cur["a"][part], k)
    /\ req["a"] = EmptyObject => LoadedNow = cur["a"]

====
